---- MODULE Spec2Model ----
(***************************************************************************)
(* Model of backend/integrations/hubspot.py: the OAuth2 authorization-code *)
(* flow against HubSpot (authorize_hubspot, oauth2callback_hubspot), the   *)
(* credential manager (get_hubspot_credentials, refresh_hubspot_token) and *)
(* the Redis store both of them keep their state in.                       *)
(*                                                                         *)
(* Every coroutine is cut at its awaits: one action per stretch of code    *)
(* that runs between two suspensions of the asyncio event loop.            *)
(***************************************************************************)
EXTENDS Integers, Sequences, FiniteSets, TLC

VARIABLES
    now,            \* time.time(), in seconds
    redis,          \* the Redis store: key -> [value, expire_at]
    nonce_counter,  \* number of secrets.token_urlsafe(32) values drawn so far
    redirect,       \* per (org_id, user_id): the state of the last redirect URL
    cb,             \* the oauth2callback_hubspot invocations
    gc,             \* the get_hubspot_credentials invocations
    validated,      \* nonces whose callback finished with the token stored
    rejected,       \* nonces whose callback finished with a failed exchange
    returned,       \* what the step just taken returned to its caller, if anything
    fetch           \* the get_items_hubspot invocation

vars == <<now, redis, nonce_counter, redirect, cb, gc, validated, rejected, returned,
          fetch>>

----------------------------------------------------------------------------
(* Program constants *)

STATE_TTL == 600
CREDENTIAL_TTL == 600
RENEWAL_BUFFER == 300

(* Bounds of the model *)

MaxTime == 601          \* the clock stops here
MaxNonce == 2           \* authorize_hubspot calls in one behaviour
MaxLen == 2             \* characters of a first or last name
MaxContacts == 2        \* contacts of one page

Users == {"u1"}
Orgs == {"o1"}
CallSlots == <<"c1", "c2">>     \* oauth2callback_hubspot requests in flight
AllCalls == {CallSlots[i] : i \in DOMAIN CallSlots}
Calls == {"c1"}         \* one callback at a time
GCalls == {"g1"}        \* get_hubspot_credentials calls in flight

Pairs == Orgs \X Users

\* The clock is observed at the start, at the renewal buffer and around the
\* end of the time-to-live of what was stored at the start.
TimePoints ==
    {0, RENEWAL_BUFFER, STATE_TTL - 1, STATE_TTL, STATE_TTL + 1} \cap (0..MaxTime)

----------------------------------------------------------------------------
(* Python values *)

None == <<>>

\* d[k] = v on a dict
DictSet(d, k, v) == [x \in DOMAIN d \cup {k} |-> IF x = k THEN v ELSE d[x]]

\* json.dumps: the JSON text of a value; json.loads reads it back and raises
\* on text that is not JSON.
json_dumps(v) == <<"json", v>>
IsJson(s) == Len(s) = 2 /\ s[1] = "json"
json_loads(s) == s[2]

NotJson == <<"text", "%7Bnot-json">>

\* Token endpoint payloads (response.json()): HubSpot decides what is in them.
ProviderPayloads ==
    { [access_token |-> "a1", refresh_token |-> "r1", expires_in |-> 600],
      [access_token |-> "a2", refresh_token |-> "r2", expires_in |-> 3600,
       issued_at |-> 5] }

EmptyDict == [x \in {} |-> 0]

TokenResponses ==
    { [status_code |-> 200, text |-> "", json |-> p] : p \in ProviderPayloads }
    \cup { [status_code |-> 400, text |-> "invalid_grant", json |-> EmptyDict],
           [status_code |-> 502, text |-> "bad gateway", json |-> EmptyDict] }

NoResponse == [status_code |-> 0, text |-> "", json |-> EmptyDict]

----------------------------------------------------------------------------
(* redis_client: an expiring key -> value store *)

state_key(org_id, user_id) == "hubspot_state:" \o org_id \o ":" \o user_id
credentials_key(org_id, user_id) == "hubspot_credentials:" \o org_id \o ":" \o user_id

add_key_value_redis(r, key, value, expire, t) ==
    [k \in DOMAIN r \cup {key} |->
        IF k = key THEN [value |-> value, expire_at |-> t + expire] ELSE r[k]]

get_value_redis(r, key) == IF key \in DOMAIN r THEN r[key].value ELSE None

delete_key_redis(r, key) == [k \in DOMAIN r \ {key} |-> r[k]]

\* Redis drops an entry once its time-to-live has run out.
expire_keys(r, t) == [k \in {x \in DOMAIN r : r[x].expire_at > t} |-> r[k]]

----------------------------------------------------------------------------
(* Results of a call *)

HTTPException(status, detail) == [kind |-> "HTTPException", status_code |-> status, detail |-> detail]
HTMLResponse == [kind |-> "HTMLResponse"]
Raised(type) == [kind |-> type]
Returned(v) == [kind |-> "return", value |-> v]
NoResult == [kind |-> "none"]

\* A call that ends hands its result to its caller: frame is the call's frame
\* as it ends (its parameters, its locals and what it raises or returns).
Return(call, l) == [call |-> call, frame |-> l]
NoReturn == [call |-> "", frame |-> EmptyDict]

----------------------------------------------------------------------------
(* authorize_hubspot *)

\* secrets.token_urlsafe(32): a value never drawn before
token_urlsafe(counter) == counter + 1

state_payload(nonce, user_id, org_id) ==
    [state |-> nonce, user_id |-> user_id, org_id |-> org_id]

\* Mutant: a pending state that is still live is not overwritten.
authorize_hubspot_keeps_pending(user_id, org_id) ==
    /\ nonce_counter < MaxNonce
    /\ LET encoded_state ==
               json_dumps(state_payload(token_urlsafe(nonce_counter), user_id, org_id))
       IN /\ redis' = IF state_key(org_id, user_id) \in DOMAIN redis
                       THEN redis
                       ELSE add_key_value_redis(redis, state_key(org_id, user_id),
                                                encoded_state, STATE_TTL, now)
          /\ redirect' = [redirect EXCEPT ![<<org_id, user_id>>] = encoded_state]
    /\ nonce_counter' = token_urlsafe(nonce_counter)
    /\ returned' = NoReturn
    /\ UNCHANGED <<now, cb, gc, validated, rejected, fetch>>

\* Mutant: the pending state is stored with ten times its time-to-live.
authorize_hubspot_long_ttl(user_id, org_id) ==
    /\ nonce_counter < MaxNonce
    /\ LET encoded_state ==
               json_dumps(state_payload(token_urlsafe(nonce_counter), user_id, org_id))
       IN /\ redis' = add_key_value_redis(redis, state_key(org_id, user_id),
                                          encoded_state, 10 * STATE_TTL, now)
          /\ redirect' = [redirect EXCEPT ![<<org_id, user_id>>] = encoded_state]
    /\ nonce_counter' = token_urlsafe(nonce_counter)
    /\ returned' = NoReturn
    /\ UNCHANGED <<now, cb, gc, validated, rejected, fetch>>

authorize_hubspot(user_id, org_id) ==
    /\ nonce_counter < MaxNonce
    /\ LET encoded_state ==
               json_dumps(state_payload(token_urlsafe(nonce_counter), user_id, org_id))
       IN /\ redis' = add_key_value_redis(redis, state_key(org_id, user_id),
                                          encoded_state, STATE_TTL, now)
          /\ redirect' = [redirect EXCEPT ![<<org_id, user_id>>] = encoded_state]
    /\ nonce_counter' = token_urlsafe(nonce_counter)
    /\ returned' = NoReturn
    /\ UNCHANGED <<now, cb, gc, validated, rejected, fetch>>

----------------------------------------------------------------------------
(* oauth2callback_hubspot *)

NoRequest == [error |-> "", code |-> "", state |-> None]

\* The frame of an invocation: the request, the locals, and two counters of
\* what it has done so far: sent, the token requests it has issued, and
\* store_ops, the Redis commands it has had executed.
CbIdle ==
    [pc |-> "idle", request |-> NoRequest,
     org_id |-> "", user_id |-> "", received_state |-> 0,
     post_done |-> FALSE, del_done |-> FALSE, token_response |-> NoResponse,
     credentials |-> EmptyDict, sent |-> 0, store_ops |-> 0, result |-> NoResult]

\* The call is over; result is what it raises or returns.
CbDone(l, result) == [l EXCEPT !.pc = "done", !.result = result]

\* Mutant: the provider's error parameter is not looked at.
callback_entry_ignores_error(request) ==
    LET l == [CbIdle EXCEPT !.request = request]
    IN
    IF request.code = "" \/ request.state = None
    THEN CbDone(l, HTTPException(400, "Missing code or state."))
    ELSE IF ~IsJson(request.state)
    THEN CbDone(l, Raised("JSONDecodeError"))
    ELSE LET state_data == json_loads(request.state)
         IN [l EXCEPT !.pc = "get_state",
                      !.org_id = state_data.org_id,
                      !.user_id = state_data.user_id,
                      !.received_state = state_data.state]

\* Lines 62-77: from the entry to the await of get_value_redis.
callback_entry(request) ==
    LET l == [CbIdle EXCEPT !.request = request]
    IN
    IF request.error # ""
    THEN CbDone(l, HTTPException(400, request.error))
    ELSE IF request.code = "" \/ request.state = None
    THEN CbDone(l, HTTPException(400, "Missing code or state."))
    ELSE IF ~IsJson(request.state)
    THEN CbDone(l, Raised("JSONDecodeError"))
    ELSE LET state_data == json_loads(request.state)
         IN [l EXCEPT !.pc = "get_state",
                           !.org_id = state_data.org_id,
                           !.user_id = state_data.user_id,
                           !.received_state = state_data.state]

\* Mutant: only the presence of a pending state is checked.
state_check_presence_only(received_state, stored_state_raw) ==
    IF stored_state_raw = None
    THEN "OAuth state expired or missing."
    ELSE "ok"

\* Lines 80-85: the two checks on the stored pending state.
state_check(received_state, stored_state_raw) ==
    IF stored_state_raw = None
    THEN "OAuth state expired or missing."
    ELSE IF received_state # json_loads(stored_state_raw).state
    THEN "State mismatch detected."
    ELSE "ok"

\* Lines 79-101: get_value_redis returns; on a passed check asyncio.gather
\* starts the token request and the delete.
callback_after_get(l, stored_state_raw) ==
    LET verdict == state_check(l.received_state, stored_state_raw)
        got == [l EXCEPT !.store_ops = l.store_ops + 1]
    IN IF verdict # "ok"
       THEN CbDone(got, HTTPException(400, verdict))
       ELSE [got EXCEPT !.pc = "gather", !.sent = l.sent + 1]

\* Mutant: an issued_at of the provider is kept.
callback_after_gather_keeps_issued_at(l, t) ==
    IF l.token_response.status_code # 200
    THEN CbDone(l, HTTPException(l.token_response.status_code, l.token_response.text))
    ELSE [l EXCEPT !.pc = "put_credentials",
                   !.credentials = IF "issued_at" \in DOMAIN l.token_response.json
                                   THEN l.token_response.json
                                   ELSE DictSet(l.token_response.json, "issued_at", t)]

\* Mutant: the status of the token response is not looked at.
callback_after_gather_unchecked(l, t) ==
    [l EXCEPT !.pc = "put_credentials",
              !.credentials = DictSet(l.token_response.json, "issued_at", t)]

\* Lines 103-107: asyncio.gather has returned.
callback_after_gather(l, t) ==
    IF l.token_response.status_code # 200
    THEN CbDone(l, HTTPException(l.token_response.status_code, l.token_response.text))
    ELSE [l EXCEPT !.pc = "put_credentials",
                   !.credentials = DictSet(l.token_response.json, "issued_at", t)]

\* Mutant: the delete is given the credentials key.
gather_delete_credentials_key(r, l) ==
    delete_key_redis(r, credentials_key(l.org_id, l.user_id))

\* Mutant: the pending state is deleted only once the exchange has succeeded.
gather_delete_on_success(r, l) ==
    IF l.token_response.status_code = 200
    THEN delete_key_redis(r, state_key(l.org_id, l.user_id))
    ELSE r

\* Line 100: the key the gathered delete removes.
gather_delete(r, l) == delete_key_redis(r, state_key(l.org_id, l.user_id))

\* The query parameters a callback can arrive with, for the pairs in P.
Requests(P) ==
    [error : {"", "access_denied"},
     code : {"", "code"},
     state : {None, NotJson}
             \cup {json_dumps(state_payload(n, p[2], p[1])) :
                     n \in 0..nonce_counter, p \in P}]

\* The invocation c goes on with the locals l, or ends and returns.
CbStep(c, l) ==
    IF l.pc = "done"
    THEN /\ cb' = [cb EXCEPT ![c] = CbIdle]
         /\ returned' = Return(c, l)
    ELSE /\ cb' = [cb EXCEPT ![c] = l]
         /\ returned' = NoReturn

\* Invocations take the free slots in order.
CbFree(c) ==
    /\ cb[c].pc = "idle"
    /\ \A i, j \in DOMAIN CallSlots :
          (CallSlots[j] = c /\ i < j) => cb[CallSlots[i]].pc # "idle"

\* Mutant: the handler goes on as soon as the token endpoint has answered.
gather_step_on_response(l, t) ==
    IF l.post_done THEN callback_after_gather(l, t) ELSE l

\* asyncio.gather returns once both of its awaitables are done.
gather_step(l, t) ==
    IF l.post_done /\ l.del_done THEN callback_after_gather(l, t) ELSE l

\* A failed exchange is remembered by the nonce it burnt.
Reject(l) ==
    IF l.pc = "done" /\ l.sent > 0 /\ l.result.kind = "HTTPException"
       /\ l.post_done
    THEN rejected \cup {l.received_state} ELSE rejected

\* The request arrives; the handler runs up to the answer of get_value_redis
\* (nothing before line 79 reads or writes anything shared).
oauth2callback_hubspot(c, request) ==
    /\ CbFree(c)
    /\ LET l == callback_entry(request)
       IN IF l.pc = "done"
          THEN CbStep(c, l)
          ELSE CbStep(c, callback_after_get(l,
                   get_value_redis(redis, state_key(l.org_id, l.user_id))))
    /\ UNCHANGED <<now, redis, nonce_counter, redirect, gc, validated, rejected, fetch>>

\* The token endpoint answers the request of line 89.
callback_token_response(c, response) ==
    /\ cb[c].pc = "gather"
    /\ ~cb[c].post_done
    /\ LET l == gather_step([cb[c] EXCEPT !.post_done = TRUE,
                                          !.token_response = response], now)
       IN /\ CbStep(c, l)
          /\ rejected' = Reject(l)
    /\ UNCHANGED <<now, redis, nonce_counter, redirect, gc, validated, fetch>>

\* Redis executes the delete of line 100.
callback_delete_state(c) ==
    /\ cb[c].pc = "gather"
    /\ ~cb[c].del_done
    /\ redis' = gather_delete(redis, cb[c])
    /\ LET l == gather_step([cb[c] EXCEPT !.del_done = TRUE,
                                          !.store_ops = cb[c].store_ops + 1], now)
       IN /\ CbStep(c, l)
          /\ rejected' = Reject(l)
    /\ UNCHANGED <<now, nonce_counter, redirect, gc, validated, fetch>>

\* Redis executes the write of lines 109-113; the handler returns.
callback_put_credentials(c) ==
    /\ cb[c].pc = "put_credentials"
    /\ redis' = add_key_value_redis(redis, credentials_key(cb[c].org_id, cb[c].user_id),
                                    json_dumps(cb[c].credentials), CREDENTIAL_TTL, now)
    /\ CbStep(c, CbDone([cb[c] EXCEPT !.store_ops = cb[c].store_ops + 1], HTMLResponse))
    /\ validated' = validated \cup {cb[c].received_state}
    /\ UNCHANGED <<now, nonce_counter, redirect, gc, rejected, fetch>>

----------------------------------------------------------------------------
(* refresh_hubspot_token and get_hubspot_credentials *)

GcIdle ==
    [pc |-> "idle", org_id |-> "", user_id |-> "", credentials |-> EmptyDict,
     refreshed |-> EmptyDict, sent |-> 0, result |-> NoResult]

GcDone(l, result) == [l EXCEPT !.pc = "done", !.result = result]

\* Mutant: the comparison of line 157 with >= for >.
needs_refresh_inclusive(credentials, t) ==
    /\ "expires_in" \in DOMAIN credentials
    /\ "issued_at" \in DOMAIN credentials
    /\ t >= credentials["issued_at"] + credentials["expires_in"] - RENEWAL_BUFFER

\* Mutant: a token is refreshed once it is older than the renewal buffer.
needs_refresh_by_age(credentials, t) ==
    /\ "expires_in" \in DOMAIN credentials
    /\ "issued_at" \in DOMAIN credentials
    /\ t > credentials["issued_at"] + RENEWAL_BUFFER

\* Lines 155-157: is the cached token to be refreshed at time t ?
needs_refresh(credentials, t) ==
    /\ "expires_in" \in DOMAIN credentials
    /\ "issued_at" \in DOMAIN credentials
    /\ t > credentials["issued_at"] + credentials["expires_in"] - RENEWAL_BUFFER

\* Lines 150-163: get_value_redis has returned.
credentials_after_get(l, credentials_raw, t) ==
    IF credentials_raw = None
    THEN GcDone(l, HTTPException(400, "No credentials found or expired."))
    ELSE LET credentials == json_loads(credentials_raw)
             got == [l EXCEPT !.credentials = credentials]
         IN IF needs_refresh(credentials, t)
            THEN IF "refresh_token" \in DOMAIN credentials
                 THEN [got EXCEPT !.pc = "refresh", !.sent = l.sent + 1]
                 ELSE GcDone(got, Raised("KeyError"))
            ELSE GcDone(got, Returned(credentials))

\* Mutant: a refused refresh falls back to the cached payload.
refresh_hubspot_token_falls_back(l, response, t) ==
    IF response.status_code # 200
    THEN GcDone(l, Returned(l.credentials))
    ELSE [l EXCEPT !.pc = "put_refreshed",
                   !.refreshed = DictSet(response.json, "issued_at", t)]

\* Lines 138-143: the token endpoint has answered the refresh request.
refresh_hubspot_token(l, response, t) ==
    IF response.status_code # 200
    THEN GcDone(l, HTTPException(response.status_code, "Token refresh failed."))
    ELSE [l EXCEPT !.pc = "put_refreshed",
                   !.refreshed = DictSet(response.json, "issued_at", t)]

\* Mutant: line 161 returns the payload that was read from the cache.
credentials_after_put_stale(l) == GcDone(l, Returned(l.credentials))

\* Line 161: what the call returns after a refresh.
credentials_after_put(l) == GcDone(l, Returned(l.refreshed))

GcStep(g, l) ==
    IF l.pc = "done"
    THEN /\ gc' = [gc EXCEPT ![g] = GcIdle]
         /\ returned' = Return(g, l)
    ELSE /\ gc' = [gc EXCEPT ![g] = l]
         /\ returned' = NoReturn

\* Mutant: a read renews the time-to-live of the entry.
get_hubspot_credentials_sliding(g, user_id, org_id) ==
    /\ gc[g].pc = "idle"
    /\ GcStep(g, credentials_after_get(
                  [GcIdle EXCEPT !.org_id = org_id, !.user_id = user_id],
                  get_value_redis(redis, credentials_key(org_id, user_id)),
                  now))
    /\ redis' = IF credentials_key(org_id, user_id) \in DOMAIN redis
                THEN add_key_value_redis(redis, credentials_key(org_id, user_id),
                         get_value_redis(redis, credentials_key(org_id, user_id)),
                         CREDENTIAL_TTL, now)
                ELSE redis
    /\ UNCHANGED <<now, nonce_counter, redirect, cb, validated, rejected, fetch>>

\* The call runs up to the answer of get_value_redis and what follows it
\* (nothing before line 148 reads or writes anything shared).
get_hubspot_credentials(g, user_id, org_id) ==
    /\ gc[g].pc = "idle"
    /\ GcStep(g, credentials_after_get(
                  [GcIdle EXCEPT !.org_id = org_id, !.user_id = user_id],
                  get_value_redis(redis, credentials_key(org_id, user_id)),
                  now))
    /\ UNCHANGED <<now, redis, nonce_counter, redirect, cb, validated, rejected, fetch>>

\* The token endpoint answers the request of line 127.
credentials_refresh_response(g, response) ==
    /\ gc[g].pc = "refresh"
    /\ GcStep(g, refresh_hubspot_token(gc[g], response, now))
    /\ UNCHANGED <<now, redis, nonce_counter, redirect, cb, validated, rejected, fetch>>

\* Redis executes the write of line 160; the call returns.
credentials_put_refreshed(g) ==
    /\ gc[g].pc = "put_refreshed"
    /\ redis' = add_key_value_redis(redis, credentials_key(gc[g].org_id, gc[g].user_id),
                                    json_dumps(gc[g].refreshed), CREDENTIAL_TTL, now)
    /\ GcStep(g, credentials_after_put(gc[g]))
    /\ UNCHANGED <<now, nonce_counter, redirect, cb, validated, rejected, fetch>>

----------------------------------------------------------------------------
(* get_items_hubspot and create_integration_item_metadata_object *)

\* A str is the sequence of its characters.
Chars == {" ", "a"}
Strs == UNION {[1..n -> Chars] : n \in 0..MaxLen}
Ada == <<"A", "d", "a">>
Lovelace == <<"L", "o", "v", "e", "l", "a", "c", "e">>
UnnamedContact ==
    <<"U", "n", "n", "a", "m", "e", "d", " ", "C", "o", "n", "t", "a", "c", "t">>

\* str.strip(): the string without its leading and trailing whitespace.
RECURSIVE lstrip(_)
lstrip(s) == IF s # <<>> /\ Head(s) = " " THEN lstrip(Tail(s)) ELSE s

RECURSIVE rstrip(_)
rstrip(s) ==
    IF s # <<>> /\ s[Len(s)] = " " THEN rstrip(SubSeq(s, 1, Len(s) - 1)) ELSE s

strip(s) == rstrip(lstrip(s))

\* dict.get(key, default)
DictGet(d, k, default) == IF k \in DOMAIN d THEN d[k] ELSE default

\* Mutant: the joined name is not stripped.
full_name_unstripped(first_name, last_name) == first_name \o <<" ">> \o last_name

\* Line 199: f"{first_name} {last_name}".strip() or "Unnamed Contact"
full_name(first_name, last_name) ==
    LET joined == strip(first_name \o <<" ">> \o last_name)
    IN IF joined = <<>> THEN UnnamedContact ELSE joined

IntegrationItem(id, type, name, creation_time, last_modified_time, parent_id) ==
    [id |-> id, type |-> type, name |-> name, creation_time |-> creation_time,
     last_modified_time |-> last_modified_time, parent_id |-> parent_id]

\* Lines 195-208.
create_integration_item_metadata_object(contact_data) ==
    LET properties == DictGet(contact_data, "properties", EmptyDict)
        first_name == strip(DictGet(properties, "firstname", <<>>))
        last_name == strip(DictGet(properties, "lastname", <<>>))
    IN IntegrationItem(contact_data["id"], "contact", full_name(first_name, last_name),
                       DictGet(contact_data, "createdAt", None),
                       DictGet(contact_data, "updatedAt", None),
                       None)

\* The contacts HubSpot can answer with: with and without a first and a last
\* name, without properties, without timestamps.
Names == Strs \cup {Ada, Lovelace}

ContactProperties ==
    { [firstname |-> f, lastname |-> l] : f \in Names, l \in Names }
    \cup { [firstname |-> f] : f \in Names }
    \cup { [lastname |-> l] : l \in Names }
    \cup { EmptyDict }

Contacts ==
    { [id |-> "1", properties |-> p, createdAt |-> "2024-01-01", updatedAt |-> "2024-02-02"] :
        p \in ContactProperties }
    \cup { [id |-> "3"] }

\* The contacts that follow the first one of a page.
MoreContacts ==
    { [id |-> "2", properties |-> [firstname |-> Ada, lastname |-> Lovelace]],
      [id |-> "3"] }

ContactPages ==
    { <<>> }
    \cup { <<c>> \o more : c \in Contacts,
                           more \in UNION {[1..n -> MoreContacts] : n \in 0..(MaxContacts - 1)} }

ContactsResponses ==
    { [status_code |-> 200, text |-> "", json |-> [results |-> contacts]] :
        contacts \in ContactPages }
    \cup { [status_code |-> 200, text |-> "", json |-> EmptyDict],
           [status_code |-> 401, text |-> "expired token", json |-> EmptyDict] }

\* The argument of get_items_hubspot: a dict, or a str.
Dict(d) == [type |-> "dict", dict |-> d, text |-> <<>>]
Str(text) == [type |-> "str", dict |-> EmptyDict, text |-> text]

ItemsCredentials ==
    { [access_token |-> "a1", refresh_token |-> "r1", expires_in |-> 600, issued_at |-> 0],
      [access_token |-> "a2", refresh_token |-> "r2", expires_in |-> 3600, issued_at |-> 0] }

ItemsArguments ==
    {Dict(d) : d \in ItemsCredentials}
    \cup {Str(json_dumps(d)) : d \in ItemsCredentials}
    \cup {Str(NotJson)}

FetchIdle ==
    [pc |-> "idle", credentials |-> Dict(EmptyDict), headers |-> EmptyDict,
     response |-> NoResponse, contacts |-> <<>>, result |-> NoResult]

FetchDone(l, result) == [l EXCEPT !.pc = "done", !.result = result]

\* Mutant: a str argument is not decoded.
items_credentials_as_given(credentials) ==
    IF credentials.type = "str" THEN EmptyDict ELSE credentials.dict

\* Lines 170-171: a str argument is decoded.
items_credentials(credentials) ==
    IF credentials.type = "str" THEN json_loads(credentials.text) ELSE credentials.dict

\* Lines 173-176.
items_headers(credentials) ==
    ("Authorization" :> "Bearer " \o credentials["access_token"])
    @@ ("Content-Type" :> "application/json")

\* Lines 170-182: from the entry to the await of client.get.
items_entry(credentials) ==
    LET l == [FetchIdle EXCEPT !.credentials = credentials]
    IN IF credentials.type = "str" /\ ~IsJson(credentials.text)
       THEN FetchDone(l, Raised("JSONDecodeError"))
       ELSE IF "access_token" \notin DOMAIN items_credentials(credentials)
       THEN FetchDone(l, Raised("KeyError"))
       ELSE [l EXCEPT !.pc = "get",
                      !.headers = items_headers(items_credentials(credentials))]

\* Lines 184-191: the contacts endpoint has answered.
items_after_get(l, response) ==
    IF response.status_code # 200
    THEN FetchDone([l EXCEPT !.response = response],
                   HTTPException(response.status_code, response.text))
    ELSE LET contacts == DictGet(response.json, "results", <<>>)
         IN FetchDone([l EXCEPT !.response = response, !.contacts = contacts],
                Returned([i \in DOMAIN contacts |->
                             create_integration_item_metadata_object(contacts[i])]))

get_items_hubspot(credentials) ==
    /\ fetch.pc = "idle"
    /\ fetch' = items_entry(credentials)
    /\ UNCHANGED <<now, redis, nonce_counter, redirect, cb, gc, validated, rejected,
                   returned>>

\* The contacts endpoint answers the request of line 182.
items_contacts_response(response) ==
    /\ fetch.pc = "get"
    /\ fetch' = items_after_get(fetch, response)
    /\ UNCHANGED <<now, redis, nonce_counter, redirect, cb, gc, validated, rejected,
                   returned>>

----------------------------------------------------------------------------
(* The clock *)

Tick(t) ==
    /\ t > now
    /\ now' = t
    /\ redis' = expire_keys(redis, t)
    /\ returned' = NoReturn
    /\ UNCHANGED <<nonce_counter, redirect, cb, gc, validated, rejected, fetch>>

----------------------------------------------------------------------------
(* Specification *)

EmptyStore == [k \in {} |-> None]

Init ==
    /\ now = 0
    /\ redis = EmptyStore
    /\ nonce_counter = 0
    /\ redirect = [p \in Pairs |-> None]
    /\ cb = [c \in AllCalls |-> CbIdle]
    /\ gc = [g \in GCalls |-> GcIdle]
    /\ validated = {}
    /\ rejected = {}
    /\ returned = NoReturn
    /\ fetch = FetchIdle

Next ==
    \/ \E p \in Pairs : authorize_hubspot(p[2], p[1])
    \/ \E c \in Calls, request \in Requests(Pairs) : oauth2callback_hubspot(c, request)
    \/ \E c \in Calls, response \in TokenResponses : callback_token_response(c, response)
    \/ \E c \in Calls : callback_delete_state(c)
    \/ \E c \in Calls : callback_put_credentials(c)
    \/ \E g \in GCalls, p \in Pairs : get_hubspot_credentials(g, p[2], p[1])
    \/ \E g \in GCalls, response \in TokenResponses : credentials_refresh_response(g, response)
    \/ \E g \in GCalls : credentials_put_refreshed(g)
    \/ \E t \in TimePoints : Tick(t)

Spec == Init /\ [][Next]_vars

\* Two callbacks in flight at one instant: the interleavings of their awaits.
NextRace ==
    \/ \E p \in Pairs : authorize_hubspot(p[2], p[1])
    \/ \E c \in AllCalls, request \in Requests(Pairs) : oauth2callback_hubspot(c, request)
    \/ \E c \in AllCalls, response \in TokenResponses : callback_token_response(c, response)
    \/ \E c \in AllCalls : callback_delete_state(c)
    \/ \E c \in AllCalls : callback_put_credentials(c)

SpecRace == Init /\ [][NextRace]_vars

----------------------------------------------------------------------------
(* The credential manager over a cache that already holds credentials *)

\* The time-to-live of an entry runs on the clock of the Redis server,
\* issued_at and now are time.time() of the application: a payload can be
\* older by the one than its entry is by the other. Cached payloads: a token
\* of one hour issued so that, at the renewal buffer, 301, 300 and 299 seconds
\* of it remain; payloads without one of expires_in and issued_at.
CachedCredentials ==
    { [access_token |-> "a0", refresh_token |-> "r0", expires_in |-> 3600,
       issued_at |-> RENEWAL_BUFFER - 3600 + d] : d \in {301, 300, 299} }
    \cup { [access_token |-> "a0", refresh_token |-> "r0", expires_in |-> 3600],
           [access_token |-> "a0", refresh_token |-> "r0", issued_at |-> 0] }

InitCached ==
    /\ now = 0
    /\ \E credentials \in CachedCredentials, p \in Pairs :
          redis = add_key_value_redis(EmptyStore, credentials_key(p[1], p[2]),
                                      json_dumps(credentials), CREDENTIAL_TTL, 0)
    /\ nonce_counter = 0
    /\ redirect = [p \in Pairs |-> None]
    /\ cb = [c \in AllCalls |-> CbIdle]
    /\ gc = [g \in GCalls |-> GcIdle]
    /\ validated = {}
    /\ rejected = {}
    /\ returned = NoReturn
    /\ fetch = FetchIdle

NextCached ==
    \/ \E g \in GCalls, p \in Pairs : get_hubspot_credentials(g, p[2], p[1])
    \/ \E g \in GCalls, response \in TokenResponses : credentials_refresh_response(g, response)
    \/ \E g \in GCalls : credentials_put_refreshed(g)
    \/ \E t \in TimePoints : Tick(t)

SpecCached == InitCached /\ [][NextCached]_vars

----------------------------------------------------------------------------
(* Two pairs whose identifiers contain the separator of the keys *)

\* user_id and org_id are any str: (org_id, user_id) = ("o1:x", "u1") and
\* ("o1", "x:u1") are two pairs.
KeyPairs == {<<"o1:x", "u1">>, <<"o1", "x:u1">>}

InitPairs ==
    /\ now = 0
    /\ redis = EmptyStore
    /\ nonce_counter = 0
    /\ redirect = [p \in KeyPairs |-> None]
    /\ cb = [c \in AllCalls |-> CbIdle]
    /\ gc = [g \in GCalls |-> GcIdle]
    /\ validated = {}
    /\ rejected = {}
    /\ returned = NoReturn
    /\ fetch = FetchIdle

NextPairs ==
    \/ \E p \in KeyPairs : authorize_hubspot(p[2], p[1])
    \/ \E c \in Calls, request \in Requests(KeyPairs) : oauth2callback_hubspot(c, request)
    \/ \E c \in Calls, response \in TokenResponses : callback_token_response(c, response)
    \/ \E c \in Calls : callback_delete_state(c)
    \/ \E c \in Calls : callback_put_credentials(c)
    \/ \E g \in GCalls, p \in KeyPairs : get_hubspot_credentials(g, p[2], p[1])

SpecPairs == InitPairs /\ [][NextPairs]_vars

----------------------------------------------------------------------------
(* Tokens that live for the cache window and the renewal buffer together *)

LifetimePayloads ==
    { [access_token |-> "a9", refresh_token |-> "r9",
       expires_in |-> CREDENTIAL_TTL + RENEWAL_BUFFER] }

LifetimeResponses ==
    { [status_code |-> 200, text |-> "", json |-> p] : p \in LifetimePayloads }
    \cup { [status_code |-> 400, text |-> "invalid_grant", json |-> EmptyDict] }

NextLifetime ==
    \/ \E p \in Pairs : authorize_hubspot(p[2], p[1])
    \/ \E c \in Calls, request \in Requests(Pairs) : oauth2callback_hubspot(c, request)
    \/ \E c \in Calls, response \in LifetimeResponses : callback_token_response(c, response)
    \/ \E c \in Calls : callback_delete_state(c)
    \/ \E c \in Calls : callback_put_credentials(c)
    \/ \E g \in GCalls, p \in Pairs : get_hubspot_credentials(g, p[2], p[1])
    \/ \E g \in GCalls, response \in LifetimeResponses :
          credentials_refresh_response(g, response)
    \/ \E g \in GCalls : credentials_put_refreshed(g)
    \/ \E t \in TimePoints : Tick(t)

SpecLifetime == Init /\ [][NextLifetime]_vars

----------------------------------------------------------------------------
(* The resource fetcher on its own *)

NextItems ==
    \/ \E credentials \in ItemsArguments : get_items_hubspot(credentials)
    \/ \E response \in ContactsResponses : items_contacts_response(response)

SpecItems == Init /\ [][NextItems]_vars

----------------------------------------------------------------------------
(* Reading a step *)

\* The invocation c took the step.
CbActs(c) == cb'[c] # cb[c] \/ returned'.call = c
GcActs(g) == gc'[g] # gc[g] \/ returned'.call = g

\* The frame of c after the step, whether c goes on or has returned.
CbFrame(c) == IF returned'.call = c THEN returned'.frame ELSE cb'[c]
GcFrame(g) == IF returned'.call = g THEN returned'.frame ELSE gc'[g]

\* The step in which the request of c arrives and the pending state is read.
CbArrives(c) == cb[c].pc = "idle" /\ CbActs(c)

\* The state parameter was decoded into nonce, user_id and org_id.
Decoded(l) == l.request.error = "" /\ l.request.code # "" /\ IsJson(l.request.state)

PairOf(l) == <<l.org_id, l.user_id>>

StateExpired == HTTPException(400, "OAuth state expired or missing.")
StateMismatch == HTTPException(400, "State mismatch detected.")

----------------------------------------------------------------------------
(* C1: authorize_hubspot followed by a callback that carries the state of   *)
(* the redirect URL, while that state is still pending, and a code the      *)
(* token endpoint accepts: the callback passes the check, stores the        *)
(* credentials and succeeds; a later callback with the same state, with no  *)
(* authorize_hubspot for the pair in between, fails with "OAuth state       *)
(* expired or missing.".                                                    *)

C1_Step(c) ==
    LET l == CbFrame(c)
    IN /\ ( /\ CbArrives(c) /\ Decoded(l)
            /\ l.request.state = redirect[PairOf(l)]
            /\ get_value_redis(redis, state_key(l.org_id, l.user_id)) = l.request.state )
          => (cb'[c].pc = "gather" /\ l.sent = 1)
       /\ ( /\ cb[c].pc = "gather" /\ CbActs(c)
            /\ l.post_done /\ l.del_done /\ l.token_response.status_code = 200 )
          => cb'[c].pc = "put_credentials"
       /\ (cb[c].pc = "put_credentials" /\ CbActs(c))
          => ( /\ returned'.call = c
               /\ l.result = HTMLResponse
               /\ get_value_redis(redis', credentials_key(l.org_id, l.user_id))
                    = json_dumps(cb[c].credentials)
               /\ l.received_state \in validated' )
       /\ ( /\ CbArrives(c) /\ Decoded(l)
            /\ l.received_state \in validated
            /\ l.request.state = redirect[PairOf(l)] )
          => (returned'.call = c /\ l.result = StateExpired /\ l.sent = 0)

C1_ExactStateSucceedsOnce == [][\A c \in AllCalls : C1_Step(c)]_vars

C1_Witness ==
    /\ returned.call \in AllCalls
    /\ returned.frame.result = StateExpired
    /\ returned.frame.received_state \in validated
    /\ returned.frame.request.state = redirect[PairOf(returned.frame)]

----------------------------------------------------------------------------
(* C2: of the callbacks that carry one pending state, at most one passes    *)
(* the lookup and the nonce check and goes on to the token exchange.        *)

Passed(c) == cb[c].pc \in {"gather", "put_credentials"}

C2_StateValidatedOnce ==
    \A c, d \in AllCalls :
        (c # d /\ Passed(c) /\ Passed(d))
            => cb[c].request.state # cb[d].request.state

----------------------------------------------------------------------------
(* C3: a callback whose state decodes, whose pair has a pending state, and  *)
(* whose nonce is not the stored one fails with "State mismatch detected.": *)
(* it sends no token request and the store is left as it was.               *)

C3_Step(c) ==
    LET l == CbFrame(c)
        stored == get_value_redis(redis, state_key(l.org_id, l.user_id))
    IN ( /\ CbArrives(c) /\ Decoded(l)
         /\ stored # None
         /\ json_loads(stored).state # l.received_state )
       => ( /\ returned'.call = c
            /\ l.result = StateMismatch
            /\ l.sent = 0
            /\ redis' = redis )

C3_TamperedNonceMismatch == [][\A c \in AllCalls : C3_Step(c)]_vars

C3_Witness ==
    /\ returned.call \in AllCalls
    /\ returned.frame.result = StateMismatch
    /\ state_key(returned.frame.org_id, returned.frame.user_id) \in DOMAIN redis

----------------------------------------------------------------------------
(* C4: a callback with the provider's error parameter fails with status 400 *)
(* and that error as detail, whatever code and state come with it, before   *)
(* any Redis command: the store is the same after the call as before.       *)

C4_Step(c) ==
    LET l == CbFrame(c)
    IN (CbArrives(c) /\ l.request.error # "")
       => ( /\ returned'.call = c
            /\ l.result = HTTPException(400, l.request.error)
            /\ l.store_ops = 0
            /\ l.sent = 0
            /\ redis' = redis )

C4_ProviderErrorNoStoreAccess == [][\A c \in AllCalls : C4_Step(c)]_vars

C4_Witness ==
    /\ returned.call \in AllCalls
    /\ returned.frame.request.error # ""
    /\ returned.frame.request.code # ""
    /\ returned.frame.request.state = redirect[<<"o1", "u1">>]
    /\ get_value_redis(redis, state_key("o1", "u1")) = returned.frame.request.state
    /\ credentials_key("o1", "u1") \in DOMAIN redis

----------------------------------------------------------------------------
(* C5: once the nonce check has passed the pending state is deleted whether *)
(* the token endpoint answers 200 or not: when the call ends on a refused   *)
(* exchange the key no longer holds its state, and a later callback with    *)
(* that state does not reach the token exchange; it fails with "OAuth state *)
(* expired or missing." unless authorize_hubspot has run again for the pair. *)

C5_Step(c) ==
    LET l == CbFrame(c)
    IN /\ ( /\ cb[c].pc = "gather" /\ returned'.call = c )
          => ( /\ l.result = HTTPException(l.token_response.status_code,
                                           l.token_response.text)
               /\ l.token_response.status_code # 200
               /\ l.del_done
               /\ get_value_redis(redis', state_key(l.org_id, l.user_id))
                    # l.request.state
               /\ l.received_state \in rejected' )
       /\ ( /\ CbArrives(c) /\ Decoded(l)
            /\ l.received_state \in rejected )
          => ( /\ returned'.call = c
               /\ l.result \in {StateExpired, StateMismatch}
               /\ l.sent = 0
               /\ (l.request.state = redirect[PairOf(l)] => l.result = StateExpired) )

C5_DeleteUnconditional == [][\A c \in AllCalls : C5_Step(c)]_vars

C5_Witness ==
    /\ returned.call \in AllCalls
    /\ returned.frame.result = StateExpired
    /\ returned.frame.received_state \in rejected
    /\ returned.frame.request.state = redirect[PairOf(returned.frame)]
    /\ now < STATE_TTL

----------------------------------------------------------------------------
(* C6: the pending state stored for a pair is the one of the pair's latest  *)
(* redirect URL, and a callback that carries any other state for the pair   *)
(* (the state of an earlier authorize_hubspot call) fails with "State       *)
(* mismatch detected." or "OAuth state expired or missing.", sends no token *)
(* request and writes nothing.                                              *)

C6_PendingIsLatest ==
    \A p \in Pairs :
        LET stored == get_value_redis(redis, state_key(p[1], p[2]))
        IN stored # None => stored = redirect[p]

C6_Step(c) ==
    LET l == CbFrame(c)
    IN ( /\ CbArrives(c) /\ Decoded(l)
         /\ l.request.state # redirect[PairOf(l)] )
       => ( /\ returned'.call = c
            /\ l.result \in {StateExpired, StateMismatch}
            /\ l.sent = 0
            /\ redis' = redis )

C6_OnlyLatestPendingValid ==
    /\ []C6_PendingIsLatest
    /\ [][\A c \in AllCalls : C6_Step(c)]_vars

\* Two authorize_hubspot calls within the window, then the first one's state.
C6_Witness ==
    /\ returned.call \in AllCalls
    /\ returned.frame.result = StateMismatch
    /\ returned.frame.received_state = 1
    /\ redirect[PairOf(returned.frame)] =
         json_dumps(state_payload(2, returned.frame.user_id, returned.frame.org_id))
    /\ now < STATE_TTL

----------------------------------------------------------------------------
(* C7: for a cached payload with expires_in and issued_at,                  *)
(* get_hubspot_credentials sends a refresh request exactly when             *)
(* issued_at + expires_in - now < 300 and otherwise returns the cached      *)
(* payload as it is; with expires_in = 3600 it returns the cached payload   *)
(* at issued_at + 3600 - 301 and refreshes at issued_at + 3600 - 299. A     *)
(* payload without one of the two fields is returned as it is.              *)

\* The step in which g is called and the cache is read.
GcArrives(g) == gc[g].pc = "idle" /\ GcActs(g)

Remaining(credentials, t) == credentials["issued_at"] + credentials["expires_in"] - t

C7_Step(g) ==
    LET l == GcFrame(g)
        raw == get_value_redis(redis, credentials_key(l.org_id, l.user_id))
        credentials == json_loads(raw)
    IN (GcArrives(g) /\ raw # None)
       => IF /\ {"expires_in", "issued_at"} \subseteq DOMAIN credentials
             /\ Remaining(credentials, now) < 300
          THEN /\ gc'[g].pc = "refresh"
               /\ l.sent = 1
          ELSE /\ returned'.call = g
               /\ l.result = Returned(credentials)
               /\ l.sent = 0
               /\ redis' = redis

C7_RefreshBelowBuffer == [][\A g \in GCalls : C7_Step(g)]_vars

\* expires_in = 3600: a refresh at issued_at + 3600 - 299, after the cached
\* payload was returned for a token with 301 seconds left.
C7_Witness ==
    \E g \in GCalls :
        /\ gc[g].pc = "refresh"
        /\ gc[g].credentials["expires_in"] = 3600
        /\ now = gc[g].credentials["issued_at"] + 3600 - 299

C7_WitnessCached ==
    \E g \in GCalls :
        /\ returned.call = g
        /\ returned.frame.result.kind = "return"
        /\ {"expires_in", "issued_at"} \subseteq DOMAIN returned.frame.credentials
        /\ returned.frame.credentials["expires_in"] = 3600
        /\ now = returned.frame.credentials["issued_at"] + 3600 - 301

----------------------------------------------------------------------------
(* C8: when the token endpoint answers a refresh request with a status      *)
(* other than 200, get_hubspot_credentials raises HTTPException(status,     *)
(* "Token refresh failed.") after that one request: it does not return the  *)
(* cached payload and the cache entry is left as it was.                    *)

TokenRefreshFailed(status) == HTTPException(status, "Token refresh failed.")

\* The payloads line 141-142 can produce from a 200 answer at time t.
Stamped(t) == {DictSet(p, "issued_at", t) : p \in ProviderPayloads}

C8_Step(g) ==
    LET l == GcFrame(g)
    IN (gc[g].pc = "refresh" /\ GcActs(g))
       => \/ /\ gc'[g].pc = "put_refreshed"
             /\ l.refreshed \in Stamped(now)
          \/ /\ returned'.call = g
             /\ \E r \in TokenResponses :
                   /\ r.status_code # 200
                   /\ l.result = TokenRefreshFailed(r.status_code)
             /\ l.sent = 1
             /\ redis' = redis

C8_RefreshFailurePropagates == [][\A g \in GCalls : C8_Step(g)]_vars

C8_Witness ==
    \E g \in GCalls :
        /\ returned.call = g
        /\ returned.frame.result = TokenRefreshFailed(400)
        /\ get_value_redis(redis, credentials_key(returned.frame.org_id,
                                                  returned.frame.user_id))
             = json_dumps(returned.frame.credentials)

----------------------------------------------------------------------------
(* C9: a refresh answered with 200 stamps the new payload with issued_at =  *)
(* now, writes it under hubspot_credentials:{org_id}:{user_id} with a       *)
(* time-to-live of 600 s and returns that payload; a call right after it,   *)
(* when the new token has more than 300 s left, returns the stored payload  *)
(* without another refresh.                                                 *)

C9_Step(g) ==
    LET l == GcFrame(g)
        key == credentials_key(l.org_id, l.user_id)
    IN /\ (gc[g].pc = "refresh" /\ gc'[g].pc = "put_refreshed")
          => ( /\ l.refreshed \in Stamped(now)
               /\ l.refreshed["issued_at"] = now )
       /\ (gc[g].pc = "put_refreshed" /\ GcActs(g))
          => ( /\ returned'.call = g
               /\ l.result = Returned(gc[g].refreshed)
               /\ DOMAIN redis' = DOMAIN redis \cup {key}
               /\ redis'[key] = [value |-> json_dumps(gc[g].refreshed),
                                 expire_at |-> now + 600]
               /\ \A k \in DOMAIN redis \ {key} : redis'[k] = redis[k] )
       /\ ( /\ returned.call = g
            /\ returned.frame.pc = "done"
            /\ returned.frame.sent = 1
            /\ returned.frame.result.kind = "return"
            /\ GcArrives(g)
            /\ l.org_id = returned.frame.org_id
            /\ l.user_id = returned.frame.user_id
            /\ "expires_in" \in DOMAIN returned.frame.refreshed
            /\ Remaining(returned.frame.refreshed, now) > 300 )
          => ( /\ returned'.call = g
               /\ l.result = Returned(returned.frame.refreshed)
               /\ l.sent = 0 )

C9_RefreshStoresAndReturns == [][\A g \in GCalls : C9_Step(g)]_vars

C9_Witness ==
    \E g \in GCalls :
        LET l == returned.frame
            key == credentials_key(l.org_id, l.user_id)
        IN /\ returned.call = g
           /\ l.sent = 1
           /\ l.result = Returned(l.refreshed)
           /\ l.refreshed # l.credentials
           /\ l.refreshed["issued_at"] = now
           /\ Remaining(l.refreshed, now) > 300
           /\ key \in DOMAIN redis
           /\ redis[key] = [value |-> json_dumps(l.refreshed), expire_at |-> now + 600]

----------------------------------------------------------------------------
(* C10: an entry of the store is gone 600 s after it was written, whatever  *)
(* expires_in of the token in it; get_hubspot_credentials does not write to *)
(* the store when it reads, and when the credentials entry of the pair is   *)
(* absent it raises HTTPException(400, "No credentials found or expired.")  *)
(* without a token request. No entry exists before a callback succeeded.    *)

NoCredentials == HTTPException(400, "No credentials found or expired.")

C10_Expiry ==
    /\ \A k \in DOMAIN redis :
          /\ now < redis[k].expire_at
          /\ redis[k].expire_at <= now + CREDENTIAL_TTL
    /\ validated = {} =>
          \A p \in Pairs : credentials_key(p[1], p[2]) \notin DOMAIN redis

C10_Step(g) ==
    LET l == GcFrame(g)
    IN GcArrives(g)
       => ( /\ redis' = redis
            /\ ( credentials_key(l.org_id, l.user_id) \notin DOMAIN redis
                 => ( /\ returned'.call = g
                      /\ l.result = NoCredentials
                      /\ l.sent = 0 ) ) )

C10_AbsentEntryNoCredentials ==
    /\ []C10_Expiry
    /\ [][\A g \in GCalls : C10_Step(g)]_vars

\* 600 s after the one successful callback, which stored its token at 0.
C10_Witness ==
    \E g \in GCalls :
        /\ returned.call = g
        /\ returned.frame.result = NoCredentials
        /\ validated # {}
        /\ now = CREDENTIAL_TTL

----------------------------------------------------------------------------
(* C11: the payload a callback stores is the token endpoint's payload with  *)
(* issued_at set to the clock at the moment the handler is handed the       *)
(* answer (line 107), and a refreshed payload likewise (line 142): an       *)
(* issued_at the provider sent is overwritten. Every credentials entry of   *)
(* the store holds such a payload, stamped no later than it was written,    *)
(* and so does every payload get_hubspot_credentials returns.               *)

\* A payload stamped by this program at one of the instants up to t.
StampedUpTo(t) == UNION {Stamped(u) : u \in {x \in TimePoints : x <= t}}

C11_Stored ==
    /\ \A p \in Pairs :
          LET key == credentials_key(p[1], p[2])
          IN key \in DOMAIN redis
             => /\ IsJson(redis[key].value)
                /\ json_loads(redis[key].value) \in StampedUpTo(now)
                /\ json_loads(redis[key].value)["issued_at"] + CREDENTIAL_TTL
                     <= redis[key].expire_at
    /\ \A g \in GCalls :
          (returned.call = g /\ returned.frame.result.kind = "return")
             => returned.frame.result.value \in StampedUpTo(now)

C11_Step(c) ==
    LET l == CbFrame(c)
    IN (cb[c].pc = "gather" /\ cb'[c].pc = "put_credentials")
       => ( /\ l.token_response.json \in ProviderPayloads
            /\ DOMAIN l.credentials = DOMAIN l.token_response.json \cup {"issued_at"}
            /\ l.credentials["issued_at"] = now
            /\ \A k \in DOMAIN l.token_response.json \ {"issued_at"} :
                  l.credentials[k] = l.token_response.json[k] )

C11_IssuedAtIsSystemSet ==
    /\ []C11_Stored
    /\ [][\A c \in AllCalls : C11_Step(c)]_vars
    /\ [][\A g \in GCalls :
             (gc[g].pc = "refresh" /\ gc'[g].pc = "put_refreshed")
                => gc'[g].refreshed["issued_at"] = now]_vars

\* The provider sent issued_at = 5 with the token "a2"; the entry says 300.
C11_Witness ==
    \E p \in Pairs :
        LET key == credentials_key(p[1], p[2])
        IN /\ key \in DOMAIN redis
           /\ json_loads(redis[key].value)["access_token"] = "a2"
           /\ json_loads(redis[key].value)["issued_at"] = RENEWAL_BUFFER
           /\ validated # {}

----------------------------------------------------------------------------
(* C12: when the token endpoint answers the exchange with a status other    *)
(* than 200 the callback raises HTTPException with that status and the body *)
(* of the answer as detail; it reaches the write of the credentials only    *)
(* with a 200 answer, and no step it takes up to there changes the          *)
(* credentials entry of the pair: none is created, none is overwritten.     *)

C12_Step(c) ==
    LET l == CbFrame(c)
        key == credentials_key(l.org_id, l.user_id)
    IN /\ ( /\ cb[c].pc = "gather" /\ CbActs(c)
            /\ l.post_done /\ l.del_done
            /\ l.token_response.status_code # 200 )
          => ( /\ returned'.call = c
               /\ l.result = HTTPException(l.token_response.status_code,
                                           l.token_response.text)
               /\ l.token_response \in TokenResponses
               /\ l.store_ops = 2 )
       /\ ( /\ cb[c].pc \in {"idle", "gather"} /\ CbActs(c) /\ Decoded(l) )
          => ( /\ (key \in DOMAIN redis') = (key \in DOMAIN redis)
               /\ (key \in DOMAIN redis => redis'[key] = redis[key]) )
       /\ cb'[c].pc = "put_credentials" => cb'[c].token_response.status_code = 200

C12_FailedExchangeWritesNothing == [][\A c \in AllCalls : C12_Step(c)]_vars

\* A refused exchange for a pair whose credentials are in the store.
C12_Witness ==
    /\ returned.call \in AllCalls
    /\ returned.frame.result = HTTPException(502, "bad gateway")
    /\ returned.frame.sent = 1
    /\ credentials_key(returned.frame.org_id, returned.frame.user_id) \in DOMAIN redis

----------------------------------------------------------------------------
(* C13: a callback with a code and with a state that is not JSON fails with *)
(* HTTPException(400, "Missing code or state."), the error of a callback    *)
(* without code or state, and before any Redis command.                     *)

C13_MalformedStateIs400 ==
    ( /\ returned.call \in AllCalls
      /\ returned.frame.request.error = ""
      /\ returned.frame.request.code # ""
      /\ returned.frame.request.state # None
      /\ ~IsJson(returned.frame.request.state) )
    => ( /\ returned.frame.result = HTTPException(400, "Missing code or state.")
         /\ returned.frame.store_ops = 0 )

----------------------------------------------------------------------------
(* C14: authorize_hubspot stores the pending state with a time-to-live of   *)
(* 600 s and nothing else writes that key, so no pending state is in the    *)
(* store 600 s after the authorize_hubspot call that registered it; the     *)
(* callback that finds the key absent fails with "OAuth state expired or    *)
(* missing." and sends no token request, also when it carries the state of  *)
(* the pair's latest redirect URL.                                          *)

C14_Pending ==
    \A p \in Pairs :
        LET key == state_key(p[1], p[2])
        IN key \in DOMAIN redis
           => (now < redis[key].expire_at /\ redis[key].expire_at <= now + 600)

C14_Step ==
    /\ \A p \in Pairs :
          LET key == state_key(p[1], p[2])
          IN /\ redirect'[p] # redirect[p]
                => ( /\ key \in DOMAIN redis'
                     /\ redis'[key] = [value |-> redirect'[p], expire_at |-> now + 600] )
             /\ ( /\ key \in DOMAIN redis'
                  /\ (key \in DOMAIN redis => redis'[key] # redis[key]) )
                => redirect'[p] # redirect[p]
    /\ \A c \in AllCalls :
          LET l == CbFrame(c)
          IN ( /\ CbArrives(c) /\ Decoded(l)
               /\ state_key(l.org_id, l.user_id) \notin DOMAIN redis )
             => ( /\ returned'.call = c
                  /\ l.result = StateExpired
                  /\ l.sent = 0
                  /\ redis' = redis )

C14_PendingStateExpires ==
    /\ []C14_Pending
    /\ [][C14_Step]_vars

\* The state of the latest redirect URL, never used before, 601 s later.
C14_Witness ==
    /\ returned.call \in AllCalls
    /\ returned.frame.result = StateExpired
    /\ returned.frame.request.state = redirect[PairOf(returned.frame)]
    /\ returned.frame.received_state \notin validated \cup rejected
    /\ now > STATE_TTL

----------------------------------------------------------------------------
(* C15: the name of an item is the stripped firstname and the stripped      *)
(* lastname of the contact (a missing one counts as empty) joined by one    *)
(* space, stripped again: both when neither is empty, the one that is not   *)
(* empty when the other is, with no space before or after it, and "Unnamed  *)
(* Contact" exactly when both are empty. "Ada" and "Lovelace" give "Ada     *)
(* Lovelace".                                                               *)

C15_Name(contact_data, name) ==
    LET properties == IF "properties" \in DOMAIN contact_data
                      THEN contact_data["properties"] ELSE EmptyDict
        first == IF "firstname" \in DOMAIN properties
                 THEN strip(properties["firstname"]) ELSE <<>>
        last == IF "lastname" \in DOMAIN properties
                THEN strip(properties["lastname"]) ELSE <<>>
    IN /\ (first # <<>> /\ last # <<>>) => name = first \o <<" ">> \o last
       /\ (first # <<>> /\ last = <<>>) => name = first
       /\ (first = <<>> /\ last # <<>>) => name = last
       /\ (first = <<>> /\ last = <<>>) <=> name = UnnamedContact
       /\ name # <<>> /\ Head(name) # " " /\ name[Len(name)] # " "
       /\ (first = Ada /\ last = Lovelace)
          => name = <<"A", "d", "a", " ", "L", "o", "v", "e", "l", "a", "c", "e">>

C15_NameDerivation ==
    (fetch.pc = "done" /\ fetch.result.kind = "return")
    => /\ Len(fetch.result.value) = Len(fetch.contacts)
       /\ \A i \in DOMAIN fetch.contacts :
             C15_Name(fetch.contacts[i], fetch.result.value[i].name)

\* Only the first name is not blank, and it comes with a space after it.
C15_Witness ==
    /\ fetch.pc = "done"
    /\ fetch.result.kind = "return"
    /\ \E i \in DOMAIN fetch.contacts :
          /\ "properties" \in DOMAIN fetch.contacts[i]
          /\ fetch.contacts[i]["properties"] = [firstname |-> <<"a", " ">>, lastname |-> <<" ">>]
          /\ fetch.result.value[i].name = <<"a">>

----------------------------------------------------------------------------
(* C16: get_items_hubspot called with a dict of credentials and called with *)
(* the JSON text of that dict sends the same Authorization header, and for  *)
(* the same answer of the contacts endpoint raises or returns the same.     *)

\* The same credentials in the other form.
C16_OtherForm(credentials) ==
    IF credentials.type = "str"
    THEN Dict(json_loads(credentials.text))
    ELSE Str(json_dumps(credentials.dict))

C16_Step ==
    LET given == fetch'.credentials
        other == items_entry(C16_OtherForm(given))
    IN /\ ( /\ fetch.pc = "idle" /\ fetch'.pc # "idle"
            /\ (given.type = "str" => IsJson(given.text)) )
          => ( /\ other.pc = "get"
               /\ fetch'.pc = "get"
               /\ fetch'.headers = other.headers
               /\ given.type = "dict"
                  => fetch'.headers["Authorization"] =
                       "Bearer " \o given.dict["access_token"] )
       /\ (fetch.pc = "get" /\ fetch'.pc = "done")
          => ( /\ fetch'.response \in ContactsResponses
               /\ items_after_get(other, fetch'.response).result = fetch'.result )

C16_SameInBothForms == [][C16_Step]_vars

\* The JSON text was given, and the call returned a contact.
C16_Witness ==
    /\ fetch.pc = "done"
    /\ fetch.credentials = Str(json_dumps([access_token |-> "a2", refresh_token |-> "r2",
                                           expires_in |-> 3600, issued_at |-> 0]))
    /\ fetch.headers["Authorization"] = "Bearer a2"
    /\ fetch.result.kind = "return"
    /\ Len(fetch.result.value) = 2

----------------------------------------------------------------------------
(* C17: once the nonce check has passed the token request and the delete of *)
(* the pending state are both under way and either can complete first; the  *)
(* handler looks at the status and writes the credentials only when both    *)
(* are done, so the pending state it validated is no longer in the store    *)
(* when the credentials are written; and the two completion orders leave    *)
(* the handler and the store in the same state.                             *)

\* The two awaitables of c, completed in one order and in the other.
C17_OrderFree(c) ==
    \A response \in TokenResponses :
        LET posted(l) == [l EXCEPT !.post_done = TRUE, !.token_response = response]
            deleted(l) == [l EXCEPT !.del_done = TRUE, !.store_ops = l.store_ops + 1]
            post_first == gather_step(posted(cb[c]), now)
            post_then_delete == gather_step(deleted(post_first), now)
            delete_first == gather_step(deleted(cb[c]), now)
            delete_then_post == gather_step(posted(delete_first), now)
        IN /\ post_first.pc = "gather"
           /\ delete_first.pc = "gather"
           /\ post_then_delete = delete_then_post
           /\ gather_delete(redis, post_first) = gather_delete(redis, cb[c])

C17_Gathered ==
    \A c \in AllCalls :
        /\ cb[c].pc = "gather" => cb[c].sent = 1
        /\ (cb[c].pc = "gather" /\ ~cb[c].post_done /\ ~cb[c].del_done)
              => C17_OrderFree(c)
        /\ cb[c].pc = "put_credentials"
              => (cb[c].post_done /\ cb[c].del_done /\ cb[c].store_ops = 2)

C17_Step(c) ==
    LET l == CbFrame(c)
    IN /\ (cb[c].pc = "gather" /\ CbActs(c) /\ CbFrame(c).pc # "gather")
          => (l.post_done /\ l.del_done)
       /\ (cb[c].pc = "gather" /\ CbActs(c) /\ ~(l.post_done /\ l.del_done))
          => ( /\ cb'[c].pc = "gather"
               /\ cb'[c].credentials = EmptyDict )
       /\ (cb[c].pc = "put_credentials" /\ CbActs(c))
          => ( /\ get_value_redis(redis, state_key(l.org_id, l.user_id))
                    # l.request.state
               /\ redis'[credentials_key(l.org_id, l.user_id)].value
                    = json_dumps(cb[c].credentials) )

C17_GatherBeforeWrite ==
    /\ []C17_Gathered
    /\ [][\A c \in AllCalls : C17_Step(c)]_vars

\* The token endpoint has answered with 200, the delete has not been
\* executed yet: the handler is still waiting.
C17_Witness ==
    \E c \in AllCalls :
        /\ cb[c].pc = "gather"
        /\ cb[c].post_done /\ ~cb[c].del_done
        /\ cb[c].token_response.status_code = 200
        /\ get_value_redis(redis, state_key(cb[c].org_id, cb[c].user_id))
             = cb[c].request.state

----------------------------------------------------------------------------
(* C18: the credentials entry of a pair is there only if a pending state    *)
(* was registered for that pair (and a callback carried its nonce); and the *)
(* keys a callback uses are the keys of the pair its state names and of no  *)
(* other pair: it leaves the pending state and the credentials of every     *)
(* other pair as they are.                                                  *)

C18_Committed ==
    \A p \in KeyPairs :
        credentials_key(p[1], p[2]) \in DOMAIN redis => redirect[p] # None

C18_Step(c) ==
    LET l == CbFrame(c)
        entry(r, k) == IF k \in DOMAIN r THEN <<r[k]>> ELSE <<>>
    IN (CbActs(c) /\ Decoded(l))
       => \A q \in KeyPairs \ {PairOf(l)} :
             /\ state_key(q[1], q[2]) # state_key(l.org_id, l.user_id)
             /\ credentials_key(q[1], q[2]) # credentials_key(l.org_id, l.user_id)
             /\ entry(redis', state_key(q[1], q[2]))
                  = entry(redis, state_key(q[1], q[2]))
             /\ entry(redis', credentials_key(q[1], q[2]))
                  = entry(redis, credentials_key(q[1], q[2]))

C18_PairsAreSeparate ==
    /\ []C18_Committed
    /\ [][\A c \in AllCalls : C18_Step(c)]_vars

----------------------------------------------------------------------------
(* C19: the delete of a callback removes only the pending state the         *)
(* callback validated: a newer pending state, stored under the key by an    *)
(* authorize_hubspot that ran after the callback's lookup, is still there   *)
(* after the delete.                                                        *)

C19_Step(c) ==
    LET key == state_key(cb[c].org_id, cb[c].user_id)
        stored == get_value_redis(redis, key)
    IN ( /\ cb[c].pc = "gather" /\ ~cb[c].del_done
         /\ CbActs(c) /\ CbFrame(c).del_done
         /\ stored # None
         /\ stored # cb[c].request.state )
       => get_value_redis(redis', key) = stored

C19_RemovesOnlyValidated == [][\A c \in AllCalls : C19_Step(c)]_vars

----------------------------------------------------------------------------
(* C20, as claimed: get_hubspot_credentials sends a refresh request only    *)
(* for a cached token with expires_in < 900.                                *)

C20_Expiry ==
    \A p \in Pairs :
        LET key == credentials_key(p[1], p[2])
        IN key \in DOMAIN redis
           => /\ now < redis[key].expire_at
              /\ redis[key].expire_at <= now + 600
              /\ json_loads(redis[key].value)["issued_at"] <= redis[key].expire_at - 600

C20_Step(g) ==
    LET l == GcFrame(g)
        key == credentials_key(l.org_id, l.user_id)
        written == redis[key].expire_at - 600
    IN /\ (GcArrives(g) /\ key \notin DOMAIN redis)
          => (returned'.call = g /\ l.result = NoCredentials /\ l.sent = 0)
       /\ (GcArrives(g) /\ gc'[g].pc = "refresh")
          => ( /\ l.credentials["expires_in"]
                    < 900 + (written - l.credentials["issued_at"])
               /\ written = l.credentials["issued_at"]
                    => l.credentials["expires_in"] < 900 )

====
